---- MODULE Spec2Model ----
(***************************************************************************)
(* Model of the /run request of the multi-tool agent backend:              *)
(*   app/main.py            run_agent                                      *)
(*   app/agent/planner.py   create_plan_rulebased                          *)
(*   app/agent/llm_client.py plan_via_llm, respond_via_llm                 *)
(*   app/agent/executor.py  _find_best_matching_tool, execute_plan         *)
(*   app/agent/tools.py     TOOL_REGISTRY, TOOL_ALIASES, _read_csv         *)
(*   app/agent/schemas.py   ToolCall, AgentRunResponse                     *)
(*                                                                         *)
(* Python str values are TLA+ strings (sequences of characters): Len,      *)
(* SubSeq and \o are the Sequences operators.                              *)
(***************************************************************************)
EXTENDS Integers, Sequences, FiniteSets, TLC

(***************************************************************************)
(* Bounds of the model.                                                    *)
(***************************************************************************)
\* longest plan the LLM planner is let to return
MaxPlanLen == 2
\* size in bytes of the uploaded CSV
MaxFileLen == 1

(***************************************************************************)
(* Python values.                                                          *)
(***************************************************************************)
\* Python's None where a str is optional (no step or tool bears this name)
None == "<None>"

\* a JSON value as json.loads gives it: its Python type and, for a str, the text
PyStr(s) == [type |-> "str", v |-> s]
PyNone == [type |-> "NoneType", v |-> None]

UpperLetters == "ABCDEFGHIJKLMNOPQRSTUVWXYZ"
LowerLetters == "abcdefghijklmnopqrstuvwxyz"

\* str.lower() of one character
LowerChar(c) ==
    IF \E k \in 1..Len(UpperLetters) : SubSeq(UpperLetters, k, k) = c
    THEN LET k == CHOOSE k \in 1..Len(UpperLetters) : SubSeq(UpperLetters, k, k) = c
         IN  SubSeq(LowerLetters, k, k)
    ELSE c

\* str.lower()
RECURSIVE Lower(_)
Lower(s) ==
    IF Len(s) = 0 THEN s
    ELSE LowerChar(SubSeq(s, 1, 1)) \o Lower(SubSeq(s, 2, Len(s)))

\* Python's `sub in s` on two str
Contains(sub, s) ==
    \E k \in 1..(Len(s) - Len(sub) + 1) : SubSeq(s, k, k + Len(sub) - 1) = sub

(***************************************************************************)
(* app/agent/tools.py: the registry and the aliases, in dict order.        *)
(***************************************************************************)
GenerateSummaryStatistics == "Generate summary statistics"
DetectMissingValues == "Detect missing values"

\* TOOL_REGISTRY.keys(), in insertion order
TOOL_REGISTRY == <<GenerateSummaryStatistics, DetectMissingValues>>

\* TOOL_ALIASES.get(tool_name, [])
TOOL_ALIASES(tool_name) ==
    IF tool_name = GenerateSummaryStatistics
    THEN <<"summary", "summarize", "stats", "statistics", "describe",
           "data stats", "profiling", "overview", "basic stats">>
    ELSE IF tool_name = DetectMissingValues
    THEN <<"missing", "missing values", "null", "nan", "empty", "blank">>
    ELSE <<>>

(***************************************************************************)
(* difflib.SequenceMatcher(None, a, b).ratio(), without junk (isjunk is    *)
(* None and the autojunk heuristic needs len(b) >= 200).                   *)
(***************************************************************************)
\* length of the common run of a[i..ahi-1] and b[j..bhi-1] (0-based, as difflib)
RECURSIVE RunLen(_, _, _, _, _, _)
RunLen(a, b, i, ahi, j, bhi) ==
    IF i < ahi /\ j < bhi /\ SubSeq(a, i + 1, i + 1) = SubSeq(b, j + 1, j + 1)
    THEN 1 + RunLen(a, b, i + 1, ahi, j + 1, bhi)
    ELSE 0

\* find_longest_match(alo, ahi, blo, bhi): the longest matching block, the one
\* starting earliest in a and, among those, earliest in b
find_longest_match(a, b, alo, ahi, blo, bhi) ==
    LET run == [p \in (alo..(ahi - 1)) \X (blo..(bhi - 1)) |->
                    RunLen(a, b, p[1], ahi, p[2], bhi)]
        sizes == {run[p] : p \in DOMAIN run} \cup {0}
        bestsize == CHOOSE k \in sizes : \A k2 \in sizes : k2 <= k
        is == {p[1] : p \in {q \in DOMAIN run : run[q] = bestsize}}
        besti == CHOOSE i \in is : \A i2 \in is : i <= i2
        js == {p[2] : p \in {q \in DOMAIN run : run[q] = bestsize /\ q[1] = besti}}
        bestj == CHOOSE j \in js : \A j2 \in js : j <= j2
    IN  IF bestsize = 0
        THEN [i |-> alo, j |-> blo, size |-> 0]
        ELSE [i |-> besti, j |-> bestj, size |-> bestsize]

\* get_matching_blocks(): the total size of the blocks found by splitting
\* around the longest match, left and right
RECURSIVE matching_size(_, _, _, _, _, _)
matching_size(a, b, alo, ahi, blo, bhi) ==
    IF alo >= ahi \/ blo >= bhi THEN 0
    ELSE LET m == find_longest_match(a, b, alo, ahi, blo, bhi)
         IN  IF m.size = 0 THEN 0
             ELSE m.size
                  + matching_size(a, b, alo, m.i, blo, m.j)
                  + matching_size(a, b, m.i + m.size, ahi, m.j + m.size, bhi)

\* ratio() = 2.0 * matches / (len(a) + len(b)), kept as the exact fraction
\* num/den (1.0 when both are empty)
ratio(a, b) ==
    IF Len(a) + Len(b) = 0
    THEN [num |-> 1, den |-> 1]
    ELSE [num |-> 2 * matching_size(a, b, 0, Len(a), 0, Len(b)),
          den |-> Len(a) + Len(b)]

\* comparisons of two such fractions (both denominators positive)
FracGt(x, y) == x.num * y.den > y.num * x.den
FracGe(x, y) == x.num * y.den >= y.num * x.den

(***************************************************************************)
(* app/agent/executor.py: _find_best_matching_tool                         *)
(***************************************************************************)
\* threshold = 0.5
threshold == [num |-> 1, den |-> 2]

\* a mutant of AliasWins: a later alias of equal length replaces the best one
AliasWins_OnTie(alias, step_lower, best_alias_len) ==
    Contains(alias, step_lower) /\ Len(alias) >= best_alias_len

\* line 34: alias in step_lower and len(alias) > best_alias_len
AliasWins(alias, step_lower, best_alias_len) ==
    Contains(alias, step_lower) /\ Len(alias) > best_alias_len

\* lines 33-36: the loop over one tool's aliases; best is
\* [match |-> best_alias_match, len |-> best_alias_len]
RECURSIVE AliasLoop(_, _, _, _, _)
AliasLoop(step_lower, tool_name, aliases, k, best) ==
    IF k > Len(aliases) THEN best
    ELSE AliasLoop(step_lower, tool_name, aliases, k + 1,
                   IF AliasWins(aliases[k], step_lower, best.len)
                   THEN [match |-> tool_name, len |-> Len(aliases[k])]
                   ELSE best)

\* lines 30-36: the loop over the registry; an exact match returns at once
RECURSIVE ExactOrAliasLoop(_, _, _, _)
ExactOrAliasLoop(step_lower, registry, t, best) ==
    IF t > Len(registry) THEN [returned |-> FALSE, tool |-> None, best |-> best]
    ELSE IF step_lower = Lower(registry[t])
    THEN [returned |-> TRUE, tool |-> registry[t], best |-> best]
    ELSE ExactOrAliasLoop(step_lower, registry, t + 1,
             AliasLoop(step_lower, registry[t], TOOL_ALIASES(registry[t]), 1, best))

\* line 52: similarity > best_score and similarity >= threshold
ScoreWins(similarity, best_score) ==
    FracGt(similarity, best_score) /\ FracGe(similarity, threshold)

\* lines 45-54: the fuzzy loop; best is [match |-> best_match, score |-> best_score]
RECURSIVE FuzzyLoop(_, _, _, _)
FuzzyLoop(step_lower, registry, t, best) ==
    IF t > Len(registry) THEN best
    ELSE LET similarity == ratio(step_lower, Lower(registry[t]))
         IN  FuzzyLoop(step_lower, registry, t + 1,
                       IF ScoreWins(similarity, best.score)
                       THEN [match |-> registry[t], score |-> similarity]
                       ELSE best)

\* lines 10-61
_find_best_matching_tool(step, registry) ==
    IF Len(registry) = 0 THEN None
    ELSE LET step_lower == Lower(step)
             r == ExactOrAliasLoop(step_lower, registry, 1,
                                   [match |-> None, len |-> 0])
         IN  IF r.returned THEN r.tool
             ELSE IF r.best.match # None THEN r.best.match
             ELSE FuzzyLoop(step_lower, registry, 1,
                            [match |-> None, score |-> [num |-> 0, den |-> 1]]).match

(***************************************************************************)
(* app/agent/planner.py: create_plan_rulebased                             *)
(***************************************************************************)
\* lines 1-42; the steps are str values
create_plan_rulebased(task, has_file) ==
    LET task_lower == Lower(task)
        wants_summary ==
            \/ Contains("summarize", task_lower)
            \/ Contains("summary", task_lower)
            \/ Contains("stats", task_lower)
            \/ Contains("statistics", task_lower)
            \/ Contains("describe", task_lower)
            \/ Contains("profile", task_lower)
            \/ Contains("overview", task_lower)
        mentions_csv == Contains("csv", task_lower)
        steps ==
            IF mentions_csv \/ has_file
            THEN <<PyStr("Load the CSV file")>>
                 \o (IF Contains("missing", task_lower)
                     THEN <<PyStr("Detect missing values")>> ELSE <<>>)
                 \o (IF wants_summary
                     THEN <<PyStr("Generate summary statistics")>> ELSE <<>>)
            ELSE IF wants_summary
            THEN <<PyStr("Generate summary statistics")>>
            ELSE <<>>
    IN  IF Len(steps) = 0
        THEN <<PyStr("Analyze the task"), PyStr("Execute the task")>>
        ELSE steps

(***************************************************************************)
(* app/agent/llm_client.py.  What the OpenAI API answers is the            *)
(* environment's choice; the two functions are modelled on that answer.    *)
(***************************************************************************)
\* the result of a call: a value returned or an exception raised
Returned(v) == [raised |-> FALSE, exc |-> None, value |-> v]
Raised(e, v) == [raised |-> TRUE, exc |-> e, value |-> v]

\* a JSON object the planner may answer: which keys it has and of what type
\* (a key that is a list carries its elements)
ParsedDict(has_plan, plan_is_list, plan, has_tc, tc_is_list, tc) ==
    [type |-> "dict",
     has_plan |-> has_plan, plan_is_list |-> plan_is_list, plan |-> plan,
     has_tool_calls |-> has_tc, tool_calls_is_list |-> tc_is_list,
     tool_calls |-> tc]
\* a JSON value that is no object (a list, a number, a string)
ParsedOther == [ParsedDict(FALSE, FALSE, <<>>, FALSE, FALSE, <<>>)
                    EXCEPT !.type = "list"]

\* lines 31-125; api is what the API call came to: an exception kind, or
\* [kind |-> "json", parsed |-> the parsed content]
plan_via_llm(OPENAI_API_KEY, api) ==
    IF ~OPENAI_API_KEY THEN Raised("EnvironmentError", ParsedOther)
    ELSE IF api.kind = "no_openai_package" THEN Raised("ImportError", ParsedOther)
    ELSE IF api.kind = "api_error" THEN Raised("RuntimeError", ParsedOther)
    ELSE IF api.kind = "no_choices" THEN Raised("RuntimeError", ParsedOther)
    ELSE IF api.kind = "not_json" THEN Raised("ValueError", ParsedOther)
    ELSE LET parsed == api.parsed
         IN  IF parsed.type # "dict" THEN Raised("TypeError", parsed)
             ELSE IF ~parsed.has_plan \/ ~parsed.plan_is_list
             THEN Raised("ValueError", parsed)
             ELSE IF parsed.has_tool_calls /\ ~parsed.tool_calls_is_list
             THEN Raised("ValueError", parsed)
             ELSE Returned(parsed)

\* str.strip() of blanks
RECURSIVE Strip(_)
Strip(s) ==
    IF Len(s) = 0 THEN s
    ELSE IF SubSeq(s, 1, 1) = " " THEN Strip(SubSeq(s, 2, Len(s)))
    ELSE IF SubSeq(s, Len(s), Len(s)) = " " THEN Strip(SubSeq(s, 1, Len(s) - 1))
    ELSE s

\* lines 128-169; api is an exception kind or [kind |-> "content", text |-> ...],
\* text None when the message has no content
respond_via_llm(OPENAI_API_KEY, api) ==
    IF ~OPENAI_API_KEY THEN Raised("EnvironmentError", None)
    ELSE IF api.kind = "no_openai_package" THEN Raised("ImportError", None)
    ELSE IF api.kind = "api_error" THEN Raised("RuntimeError", None)
    ELSE IF api.kind = "no_choices" THEN Raised("RuntimeError", None)
    ELSE IF api.text = None THEN Raised("AttributeError", None)
    ELSE Returned(Strip(api.text))

(***************************************************************************)
(* app/agent/schemas.py: ToolCall and AgentRunResponse.                    *)
(***************************************************************************)
\* the JSON/Python values a tool_name or arguments may be
PyDict == [type |-> "dict", v |-> "{}"]
PyList == [type |-> "list", v |-> "[...]"]
\* the value of a key a JSON object does not have
PyMissing == [type |-> "missing", v |-> None]

\* a tool-call entry with the five fields of ToolCall; a key the code leaves
\* out of the dict is None, as ToolCall defaults it
ToolCall(tool_name, arguments, status, reason, error) ==
    [tool_name |-> tool_name, arguments |-> arguments, status |-> status,
     reason |-> reason, error |-> error]

\* lines 13-18: ToolCall validates tool_name: str and arguments: Dict
ToolCallValid(tc) == tc.tool_name.type = "str" /\ tc.arguments.type = "dict"

\* lines 21-25: AgentRunResponse validates plan: List[str] and
\* tool_calls: List[ToolCall] (task and result are str in every call)
AgentRunResponseValid(plan, tool_calls) ==
    /\ \A k \in 1..Len(plan) : plan[k].type = "str"
    /\ \A k \in 1..Len(tool_calls) : ToolCallValid(tool_calls[k])

(***************************************************************************)
(* The inputs of a request and the answers of the environment.             *)
(***************************************************************************)
\* the task strings submitted
Tasks == {"missing csv", "hello", "Profile", "Missing stats"}

\* file: Optional[UploadFile]; an upload may carry an empty filename
NoFile == [is_none |-> TRUE, filename |-> ""]
Files == {NoFile,
          [is_none |-> FALSE, filename |-> ""],
          [is_none |-> FALSE, filename |-> "data.csv"]}

\* the elements an LLM plan is made of: steps worded in several ways, and a
\* JSON null
LLMSteps ==
    {PyStr("DETECT MISSING VALUES"), PyStr("Summary of missing"), PyStr("stats on missing values"),
     PyStr("det val"), PyStr("detect sumary"), PyNone}

RECURSIVE SeqsUpTo(_, _)
SeqsUpTo(S, n) ==
    IF n = 0 THEN {<<>>}
    ELSE LET shorter == SeqsUpTo(S, n - 1)
         IN  shorter \cup {Append(q, e) : q \in {r \in shorter : Len(r) = n - 1}, e \in S}

LLMPlans == SeqsUpTo(LLMSteps, MaxPlanLen)

\* the elements of the tool_calls an LLM answers: an object with its
\* 'tool_name' and 'arguments' (PyMissing for a key it lacks), or a non-object
LLMToolCall(is_dict, tool_name, arguments) ==
    [is_dict |-> is_dict, tool_name |-> tool_name, arguments |-> arguments]
LLMToolCalls ==
    {LLMToolCall(TRUE, PyStr(DetectMissingValues), PyDict),
     LLMToolCall(TRUE, PyStr("Plot a chart"), PyMissing),
     LLMToolCall(FALSE, PyMissing, PyMissing),
     LLMToolCall(TRUE, PyList, PyDict),
     LLMToolCall(TRUE, PyStr("Plot a chart"), PyStr("none"))}

\* what the planner's API call may come to
PlannerReplies ==
    {[kind |-> k, parsed |-> ParsedOther] :
        k \in {"no_openai_package", "api_error", "no_choices", "not_json"}}
    \cup {[kind |-> "json", parsed |-> p] :
            p \in {ParsedOther,
                   ParsedDict(FALSE, FALSE, <<>>, FALSE, FALSE, <<>>),
                   ParsedDict(TRUE, FALSE, <<>>, FALSE, FALSE, <<>>),
                   ParsedDict(TRUE, TRUE, <<>>, TRUE, FALSE, <<>>)}}
    \cup {[kind |-> "json", parsed |-> ParsedDict(TRUE, TRUE, pl, FALSE, FALSE, <<>>)] :
            pl \in LLMPlans}
    \cup {[kind |-> "json", parsed |-> ParsedDict(TRUE, TRUE, pl, TRUE, TRUE, <<tc>>)] :
            pl \in LLMPlans, tc \in LLMToolCalls}

\* what the responder's API call may come to
ResponderReplies ==
    {[kind |-> k, text |-> None] :
        k \in {"no_openai_package", "api_error", "no_choices"}}
    \cup {[kind |-> "content", text |-> t] : t \in {None, " Hello! "}}

\* what a tool may come to on the upload: the text it returns, or the text of
\* the exception pandas raises
ToolOutput(tool_name) ==
    IF tool_name = GenerateSummaryStatistics
    THEN "<summary.to_string()>"
    ELSE "Missing Values Summary"
ToolReplies(tool_name) ==
    {Returned(ToolOutput(tool_name)), Raised("ParserError", "Error tokenizing data")}

(***************************************************************************)
(* The state of one /run request.                                          *)
(***************************************************************************)
VARIABLES
    pc,                  \* where run_agent is: "request", "plan", "execute",
                         \* "respond", "done" (returned), "crashed" (raised)
    task,                \* the task: str form field
    file,                \* the file: Optional[UploadFile] form field
    fileSize,            \* the size of the upload
    filePos,             \* the read position of file.file
    OPENAI_API_KEY,      \* llm_client.OPENAI_API_KEY is set
    llm_resp,            \* what plan_via_llm came to
    plan,                \* run_agent's plan
    planned_tool_calls,  \* run_agent's planned_tool_calls
    idx,                 \* execute_plan: the index of the step the loop is at
    tool_calls,          \* execute_plan's tool_calls
    result,              \* execute_plan's, then run_agent's, result
    tool_runs,           \* per step processed: the tool matched, whether it
                         \* was invoked, from where it read, what it came to
    exec_result,         \* the result execute_plan returned
    respond_resp,        \* what the respond_via_llm of lines 117-123 came to
    response,            \* the AgentRunResponse returned
    uncaught             \* the exception run_agent raised, None if none

vars == <<pc, task, file, fileSize, filePos, OPENAI_API_KEY, llm_resp, plan,
          planned_tool_calls, idx, tool_calls, result, tool_runs, exec_result,
          respond_resp, response, uncaught>>

NotCalled(v) == [called |-> FALSE, raised |-> FALSE, exc |-> None, value |-> v]
Called(r) == [called |-> TRUE, raised |-> r.raised, exc |-> r.exc, value |-> r.value]

NoResponse == [task |-> None, plan |-> <<>>, tool_calls |-> <<>>, result |-> None]
AgentRunResponse(t, p, tcs, r) ==
    [task |-> t, plan |-> p, tool_calls |-> tcs, result |-> r]

\* a step processed: the tool matched to it (None if none); whether the tool
\* was invoked and, if so, from where it read and what it returned or raised
NoRun(matched) ==
    [matched |-> matched, invoked |-> FALSE, read_from |-> 0, raised |-> FALSE,
     text |-> None]
Run(matched, from, r) ==
    [matched |-> matched, invoked |-> TRUE, read_from |-> from,
     raised |-> r.raised, text |-> r.value]

Init ==
    /\ pc = "request"
    /\ task \in Tasks
    /\ file \in Files
    /\ fileSize \in (IF file.is_none THEN {0} ELSE 1..MaxFileLen)
    /\ filePos = 0
    /\ OPENAI_API_KEY \in BOOLEAN
    /\ llm_resp = NotCalled(ParsedOther)
    /\ plan = <<>>
    /\ planned_tool_calls = <<>>
    /\ idx = 1
    /\ tool_calls = <<>>
    /\ result = ""
    /\ tool_runs = <<>>
    /\ exec_result = ""
    /\ respond_resp = NotCalled(None)
    /\ response = NoResponse
    /\ uncaught = None

(***************************************************************************)
(* app/main.py: run_agent, up to the plan.                                 *)
(***************************************************************************)
\* line 45: has_file = bool(file and file.filename)
has_file(f) == ~f.is_none /\ f.filename # ""

\* lines 50-60: the task names a tool or one of its aliases
is_tool_task(t) ==
    LET task_lower == Lower(t)
    IN  \E k \in 1..Len(TOOL_REGISTRY) :
            \/ Contains(Lower(TOOL_REGISTRY[k]), task_lower)
            \/ \E a \in 1..Len(TOOL_ALIASES(TOOL_REGISTRY[k])) :
                   Contains(TOOL_ALIASES(TOOL_REGISTRY[k])[a], task_lower)

\* lines 45-73: the fast path, a direct LLM response to a task that names no
\* tool and has no file; on any exception the request goes on to the planner
FastPath ==
    /\ pc = "request"
    /\ \E api \in ResponderReplies :
        LET r == respond_via_llm(OPENAI_API_KEY, api)
        IN  IF ~has_file(file) /\ ~is_tool_task(task) /\ ~r.raised
            THEN /\ response' = AgentRunResponse(task, <<>>, <<>>, r.value)
                 /\ pc' = "done"
            ELSE /\ pc' = "plan"
                 /\ UNCHANGED response
    /\ UNCHANGED <<task, file, fileSize, filePos, OPENAI_API_KEY, llm_resp, plan,
                   planned_tool_calls, idx, tool_calls, result, tool_runs,
                   exec_result, respond_resp, uncaught>>

\* plan: Optional[list]
NoPlan == [is_none |-> TRUE, steps |-> <<>>]
SomePlan(steps) == [is_none |-> FALSE, steps |-> steps]

\* line 83: the answer is a dict whose 'plan' is a list
UsablePlan(r) ==
    ~r.raised /\ r.value.type = "dict" /\ r.value.has_plan /\ r.value.plan_is_list

\* Python's truth value of a tool name
Truthy(val) == (val.type = "str" /\ val.v # "") \/ val.type = "list"

\* lines 87-101: the suggested tool calls that carry a tool name, as 'planned'
RECURSIVE PlannedToolCalls(_)
PlannedToolCalls(raw_tc) ==
    IF Len(raw_tc) = 0 THEN <<>>
    ELSE LET tc == Head(raw_tc)
             tn == IF tc.is_dict /\ tc.tool_name.type # "missing"
                   THEN tc.tool_name ELSE PyNone
             args == IF tc.is_dict /\ tc.arguments.type # "missing"
                     THEN tc.arguments ELSE PyDict
         IN  (IF Truthy(tn)
              THEN <<ToolCall(tn, args, "planned", None, None)>>
              ELSE <<>>) \o PlannedToolCalls(Tail(raw_tc))

\* a mutant of FallbackPlan: without an LLM plan the request runs no step
FallbackPlan_Empty(p, t, hf) ==
    IF p.is_none THEN <<>> ELSE p.steps

\* lines 109-110: if plan is None: plan = create_plan_rulebased(task, has_file)
FallbackPlan(p, t, hf) ==
    IF p.is_none THEN create_plan_rulebased(t, hf) ELSE p.steps

\* lines 75-110: the LLM planner, with the rule-based planner as fallback
Planner ==
    /\ pc = "plan"
    /\ \E api \in PlannerReplies :
        LET r == plan_via_llm(OPENAI_API_KEY, api)
            usable == UsablePlan(r)
            raw_tc == IF usable /\ r.value.has_tool_calls
                      THEN r.value.tool_calls ELSE <<>>
        IN  /\ llm_resp' = Called(r)
            /\ plan' = FallbackPlan(IF usable THEN SomePlan(r.value.plan) ELSE NoPlan,
                                    task, has_file(file))
            /\ planned_tool_calls' = IF usable THEN PlannedToolCalls(raw_tc) ELSE <<>>
    /\ pc' = "execute"
    /\ idx' = 1
    /\ tool_calls' = <<>>
    /\ result' = ""
    /\ UNCHANGED <<task, file, fileSize, filePos, OPENAI_API_KEY, tool_runs,
                   exec_result, respond_resp, response, uncaught>>

(***************************************************************************)
(* app/agent/executor.py: execute_plan, one iteration of its loop at a     *)
(* time.                                                                   *)
(***************************************************************************)
\* the texts of the steps a plan may hold
StepTexts ==
    {st.v : st \in {e \in LLMSteps : e.type = "str"}}
    \cup {"Load the CSV file", "Detect missing values",
          "Generate summary statistics", "Analyze the task", "Execute the task"}

\* line 84: matched_tool_name = _find_best_matching_tool(step, TOOL_REGISTRY),
\* tabulated over the steps
matched_tool_names ==
    [st \in StepTexts |-> _find_best_matching_tool(st, TOOL_REGISTRY)]

\* line 98: TOOL_REGISTRY.get(matched_tool_name) is not None
InRegistry(tool_name) ==
    \E k \in 1..Len(TOOL_REGISTRY) : TOOL_REGISTRY[k] = tool_name

\* a mutant of FileIsNone: the check for a missing file is lost
FileIsNone_Never(f) == FALSE

\* line 113: file is None
FileIsNone(f) == f.is_none

\* lines 125-127: file.file.seek(0) (an UploadFile has .file, which has .seek)
ExecutorSeek(pos) == 0

\* tools.py lines 10-11, _read_csv: upload.file.seek(0)
ReadCsvSeek(pos) == 0

\* a mutant of ReadStart: no rewinding
ReadStart_NoSeek(pos) == pos

\* lines 124-134 with tools.py _read_csv: the position pd.read_csv starts
\* reading from, after the executor's seek and _read_csv's
ReadStart(pos) == ReadCsvSeek(ExecutorSeek(pos))

\* a mutant of AfterStep: a failed tool ends the loop
AfterStep_AbortOnError(i, n, status) ==
    IF status = "error" THEN n + 1 ELSE i + 1

\* lines 82, 96, 109, 122, 150: whatever the status of step i of n, the loop
\* goes on to step i + 1
AfterStep(i, n, status) == i + 1

\* a mutant of any_success: every tool call has to have succeeded
any_success_All(tcs) ==
    \A k \in 1..Len(tcs) : tcs[k].status = "success"

\* main.py line 116: any(tc.get("status") == "success" for tc in tool_calls)
any_success(tcs) ==
    \E k \in 1..Len(tcs) : tcs[k].status = "success"

\* lines 89-95
SkippedNoTool(step) ==
    ToolCall(PyStr(step), PyDict, "skipped", "no_matching_tool",
             "Could not map '" \o step \o "' to any available tool")
\* lines 102-107
ErrorNotFound(tool_name) ==
    ToolCall(PyStr(tool_name), PyDict, "error", None, "tool_not_found")
\* lines 114-120
SkippedNoFile(tool_name) ==
    ToolCall(PyStr(tool_name), PyDict, "skipped", "no_file_provided",
             "Tool '" \o tool_name \o "' requires a file, but none was provided")
\* a mutant of Success: the status is written 'ok'
Success_Ok(tool_name) ==
    ToolCall(PyStr(tool_name), PyDict, "ok", None, None)
\* lines 135-139
Success(tool_name) ==
    ToolCall(PyStr(tool_name), PyDict, "success", None, None)
\* lines 144-149
Error(tool_name, e) ==
    ToolCall(PyStr(tool_name), PyDict, "error", None, e)

\* what one iteration does to tool_calls, result, tool_runs and the loop index
StepDone(entry, res, run) ==
    /\ tool_calls' = Append(tool_calls, entry)
    /\ result' = res
    /\ tool_runs' = Append(tool_runs, run)
    /\ idx' = AfterStep(idx, Len(plan), entry.status)
    /\ UNCHANGED <<pc, uncaught>>

\* lines 82-150: one step of the plan.  step.lower() raises on a step that
\* is no str, and nothing catches it
ExecStep ==
    /\ pc = "execute"
    /\ idx <= Len(plan)
    /\ LET step == plan[idx]
       IN  IF step.type # "str"
           THEN /\ pc' = "crashed"
                /\ uncaught' = "AttributeError"
                /\ UNCHANGED <<tool_calls, result, tool_runs, idx, filePos>>
           ELSE LET matched_tool_name == matched_tool_names[step.v]
                IN  IF matched_tool_name = None
                    THEN /\ StepDone(SkippedNoTool(step.v), result, NoRun(None))
                         /\ UNCHANGED filePos
                    ELSE IF ~InRegistry(matched_tool_name)
                    THEN /\ StepDone(ErrorNotFound(matched_tool_name),
                                     "Requested tool '" \o matched_tool_name
                                         \o "' not available",
                                     NoRun(matched_tool_name))
                         /\ UNCHANGED filePos
                    ELSE IF FileIsNone(file)
                    THEN /\ StepDone(SkippedNoFile(matched_tool_name),
                                     "No file provided for " \o matched_tool_name,
                                     NoRun(matched_tool_name))
                         /\ UNCHANGED filePos
                    ELSE \E r \in ToolReplies(matched_tool_name) :
                         \E stop \in ReadStart(filePos)..fileSize :
                            /\ r.raised \/ stop = fileSize
                            /\ filePos' = stop
                            /\ IF r.raised
                               THEN StepDone(Error(matched_tool_name, r.value),
                                             "Error running tool '"
                                                 \o matched_tool_name \o "': "
                                                 \o r.value,
                                             Run(matched_tool_name, ReadStart(filePos), r))
                               ELSE StepDone(Success(matched_tool_name), r.value,
                                             Run(matched_tool_name, ReadStart(filePos), r))
    /\ UNCHANGED <<task, file, fileSize, OPENAI_API_KEY, llm_resp, plan,
                   planned_tool_calls, exec_result, respond_resp, response>>

(***************************************************************************)
(* app/main.py: run_agent, after the plan.                                 *)
(***************************************************************************)
\* lines 113-123: execute_plan returns; with no successful tool call the
\* result becomes a direct LLM response, unless that call raises
Fallback ==
    /\ pc = "execute"
    /\ idx > Len(plan)
    /\ exec_result' = result
    /\ IF ~any_success(tool_calls)
       THEN \E api \in ResponderReplies :
                LET r == respond_via_llm(OPENAI_API_KEY, api)
                IN  /\ respond_resp' = Called(r)
                    /\ result' = IF r.raised THEN result ELSE r.value
       ELSE UNCHANGED <<respond_resp, result>>
    /\ pc' = "respond"
    /\ UNCHANGED <<task, file, fileSize, filePos, OPENAI_API_KEY, llm_resp, plan,
                   planned_tool_calls, idx, tool_calls, tool_runs, response,
                   uncaught>>

\* lines 126-133: the planned tool calls whose name no executed entry bears,
\* before the executed ones
Merged(planned, tcs) ==
    LET existing_names == {tcs[k].tool_name : k \in 1..Len(tcs)}
        NotPresent(pt) == pt.tool_name \notin existing_names
    IN  SelectSeq(planned, NotPresent) \o tcs

\* lines 125-140: the merge and the response.  A planned tool name that is a
\* list is unhashable (line 131), and AgentRunResponse validates its fields;
\* nothing catches either exception
Respond ==
    /\ pc = "respond"
    /\ IF \E k \in 1..Len(planned_tool_calls) :
              planned_tool_calls[k].tool_name.type = "list"
       THEN /\ pc' = "crashed"
            /\ uncaught' = "TypeError"
            /\ UNCHANGED response
       ELSE LET merged == Merged(planned_tool_calls, tool_calls)
            IN  IF AgentRunResponseValid(plan, merged)
                THEN /\ pc' = "done"
                     /\ response' = AgentRunResponse(task, plan, merged, result)
                     /\ UNCHANGED uncaught
                ELSE /\ pc' = "crashed"
                     /\ uncaught' = "ValidationError"
                     /\ UNCHANGED response
    /\ UNCHANGED <<task, file, fileSize, filePos, OPENAI_API_KEY, llm_resp, plan,
                   planned_tool_calls, idx, tool_calls, result, tool_runs,
                   exec_result, respond_resp>>

Next == FastPath \/ Planner \/ ExecStep \/ Fallback \/ Respond

Spec == Init /\ [][Next]_vars

(***************************************************************************)
(* The claims.                                                             *)
(***************************************************************************)
\* execute_plan has returned (the state run_agent is in right after line 113)
ExecutePlanReturned == pc = "respond"

Statuses(tcs) == {tcs[k].status : k \in 1..Len(tcs)}

\* C1: when execute_plan returns, tool_calls has exactly one entry per plan
\* step, in plan order (entry k bears the tool matched to step k, or step k
\* itself when no tool matches), each with status success, skipped or error.
C1_OneEntryPerStep ==
    ExecutePlanReturned =>
        /\ Len(tool_calls) = Len(plan)
        /\ \A k \in 1..Len(tool_calls) :
            /\ tool_calls[k].status \in {"success", "skipped", "error"}
            /\ tool_calls[k].tool_name =
                 PyStr(IF matched_tool_names[plan[k].v] = None
                       THEN plan[k].v
                       ELSE matched_tool_names[plan[k].v])

\* a three-step plan whose entries show all three statuses
C1_Witness ==
    /\ ExecutePlanReturned
    /\ Len(plan) = 3
    /\ Statuses(tool_calls) = {"success", "skipped", "error"}

\* C2: once the planner has been called, if plan_via_llm raised, the plan
\* executed (and returned in the response) is create_plan_rulebased(task,
\* has_file); if it returned a plan list, the plan is that list.
C2_RuleBasedFallback ==
    llm_resp.called =>
        /\ llm_resp.raised => plan = create_plan_rulebased(task, has_file(file))
        /\ ~llm_resp.raised => plan = llm_resp.value.plan
        /\ pc = "done" => response.plan = plan

\* the planner's answer had no valid 'plan' array and the response carries
\* the three rule-based steps
C2_Witness ==
    /\ pc = "done"
    /\ llm_resp.called /\ llm_resp.raised /\ llm_resp.exc = "ValueError"
    /\ response.plan = <<PyStr("Load the CSV file"), PyStr("Detect missing values"),
                         PyStr("Generate summary statistics")>>

\* C3: the result execute_plan returns, and the result of the response,
\* contains the output of every step whose tool ran successfully.
C3_ResultHoldsEveryOutput ==
    /\ ExecutePlanReturned =>
         \A k \in 1..Len(tool_runs) :
            (tool_runs[k].invoked /\ ~tool_runs[k].raised)
                => Contains(tool_runs[k].text, exec_result)
    /\ (pc = "done" /\ llm_resp.called) =>
         \A k \in 1..Len(tool_runs) :
            (tool_runs[k].invoked /\ ~tool_runs[k].raised)
                => Contains(tool_runs[k].text, response.result)

\* C4: run_agent never ends with an uncaught exception.
C4_NoUncaughtException == pc # "crashed" /\ uncaught = None

\* C5, said without the loops: what the claim lets the match of a step be
AliasHits(step_lower) ==
    UNION {{<<t, a>> : a \in {b \in 1..Len(TOOL_ALIASES(TOOL_REGISTRY[t])) :
                                Contains(TOOL_ALIASES(TOOL_REGISTRY[t])[b], step_lower)}} :
           t \in 1..Len(TOOL_REGISTRY)}
AliasLen(h) == Len(TOOL_ALIASES(TOOL_REGISTRY[h[1]])[h[2]])
AllowedMatches(step) ==
    LET step_lower == Lower(step)
        tools == 1..Len(TOOL_REGISTRY)
        exact == {t \in tools : Lower(TOOL_REGISTRY[t]) = step_lower}
        hits == AliasHits(step_lower)
        longest == {h \in hits : \A g \in hits : AliasLen(g) <= AliasLen(h)}
        sim(t) == ratio(step_lower, Lower(TOOL_REGISTRY[t]))
        close == {t \in tools : 2 * sim(t).num >= sim(t).den}
        closest == {t \in close : \A u \in tools : ~FracGt(sim(u), sim(t))}
    IN  IF exact # {} THEN {TOOL_REGISTRY[t] : t \in exact}
        ELSE IF hits # {}
        THEN {TOOL_REGISTRY[CHOOSE t \in {h[1] : h \in longest} :
                                \A h \in longest : t <= h[1]]}
        ELSE IF closest # {} THEN {TOOL_REGISTRY[t] : t \in closest}
        ELSE {None}
AllowedMatchesOf == [st \in StepTexts |-> AllowedMatches(st)]

\* C5: the tool matched to every step processed is the one the claim names:
\* the tool whose name the step equals case-insensitively; else the owner of
\* the longest alias occurring in the step (first in registry order on a
\* tie); else a tool of highest ratio if that ratio is >= 0.5; else None.
C5_ExactAliasFuzzy ==
    \A k \in 1..Len(tool_runs) :
        tool_runs[k].matched \in AllowedMatchesOf[plan[k].v]

\* a plan with an alias tie between the two tools (won by the first) and a
\* step whose best ratio is exactly 0.5
C5_Witness ==
    /\ ExecutePlanReturned
    /\ plan = <<PyStr("Summary of missing"), PyStr("det val")>>
    /\ tool_runs[1].matched = GenerateSummaryStatistics
    /\ tool_runs[2].matched = DetectMissingValues
    /\ ratio("det val", Lower(DetectMissingValues)) = [num |-> 14, den |-> 28]

EntryOf(step, f, run) ==
    LET m == matched_tool_names[step]
    IN  IF m = None THEN SkippedNoTool(step)
        ELSE IF f.is_none THEN SkippedNoFile(m)
        ELSE IF run.raised THEN Error(m, run.text)
        ELSE Success(m)

\* C7: a tool that raises gives its step an 'error' entry with the exception
\* text and does not end the plan: every step is processed, and each entry is
\* what its own step, the file and its own tool's outcome make it, whatever
\* earlier tools did.
C7_ErrorDoesNotAbort ==
    /\ \A k \in 1..Len(tool_calls) :
        /\ tool_calls[k] = EntryOf(plan[k].v, file, tool_runs[k])
        /\ (tool_runs[k].invoked /\ tool_runs[k].raised) =>
              (tool_calls[k].status = "error" /\ tool_calls[k].error = tool_runs[k].text)
    /\ ExecutePlanReturned => Len(tool_calls) = Len(plan)

\* a tool raised at the first step and a later step ran its tool successfully
C7_Witness ==
    /\ ExecutePlanReturned
    /\ Len(tool_calls) >= 2
    /\ tool_calls[1].status = "error"
    /\ tool_runs[1].raised
    /\ \E k \in 2..Len(tool_calls) : tool_calls[k].status = "success"

\* C8: with file None no tool is invoked; a step that matches a tool is
\* skipped for no_file_provided, one that matches none for no_matching_tool.
C8_NoFileNoTool ==
    file.is_none =>
        \A k \in 1..Len(tool_calls) :
            /\ ~tool_runs[k].invoked
            /\ tool_calls[k].status = "skipped"
            /\ tool_calls[k].reason =
                 (IF tool_runs[k].matched = None
                  THEN "no_matching_tool" ELSE "no_file_provided")

\* a plan run without a file, with both reasons
C8_Witness ==
    /\ ExecutePlanReturned
    /\ file.is_none
    /\ {tool_calls[k].reason : k \in 1..Len(tool_calls)}
         = {"no_matching_tool", "no_file_provided"}

\* C9: in a response that follows the execution of the plan, the result is
\* the direct LLM response exactly when no tool call succeeded and the LLM
\* call returned; otherwise it is the result execute_plan returned.
C9_FallbackOnlyWithoutSuccess ==
    (pc = "done" /\ llm_resp.called) =>
        IF "success" \in Statuses(tool_calls)
        THEN ~respond_resp.called /\ response.result = exec_result
        ELSE /\ respond_resp.called
             /\ response.result =
                  (IF respond_resp.raised THEN exec_result ELSE respond_resp.value)

\* a response whose direct LLM text replaced a result of the executor
C9_Witness ==
    /\ pc = "done"
    /\ llm_resp.called
    /\ "success" \notin Statuses(tool_calls)
    /\ exec_result = "No file provided for " \o DetectMissingValues
    /\ respond_resp.called /\ ~respond_resp.raised
    /\ response.result = "Hello!"
====
